---- MODULE Spec2Model ----
(***************************************************************************)
(* Model of cros_gralloc_driver (minigbm, cros_gralloc_driver.cc): the     *)
(* reference-counted buffer manager with its Buffer Table (buffers_), its  *)
(* Handle Registry (handles_) and the single mutex (mutex_).               *)
(*                                                                         *)
(* Spec         : every entry point runs as one atomic call (one caller).  *)
(* SpecTables   : the same, restricted to allocate, retain and release.    *)
(* SpecTeardown : SpecTables with the destructor.                          *)
(* SpecInit     : the constructor and init, on every set of render nodes.  *)
(* SpecMT       : several threads run the entry points step by step, with  *)
(*                the mutex acquired and released where the code does.     *)
(*                                                                         *)
(* cros_gralloc_buffer and cros_gralloc_convert_handle are not part of     *)
(* this file of the driver; they are modelled from their contract: a       *)
(* Buffer starts with reference count 1, increase/decrease move it by one, *)
(* its destructor destroys the backend allocation, and a handle converts   *)
(* when its magic is right.                                                *)
(***************************************************************************)
EXTENDS Integers, FiniteSets, Sequences, TLC

\* ---------------------------------------------------------------- bounds
NumHandles == 2   \* well-formed handle structs (pointers) that ever exist
MaxCount   == 2   \* cap on a reference count
NumThreads == 2   \* threads of SpecMT
NumNodes   == 2   \* render nodes init probes (renderD128 ...)

Pool    == 1..NumHandles   \* handle structs made by allocate or by a client
BadMagicHandle == NumHandles + 1   \* a struct whose magic is wrong
DeadFdHandle   == NumHandles + 2   \* a struct whose fds[0] names no object
Handles == Pool \cup {BadMagicHandle, DeadFdHandle}
Objs    == 1..NumHandles   \* kernel memory objects (dma-bufs): one per handle at most
Ids     == 1..NumHandles   \* GEM handle values of the device file
BufPtrs == 1..NumHandles   \* cros_gralloc_buffer objects ever constructed
Threads == 1..NumThreads
Nodes   == 1..NumNodes     \* node j stands for renderD(127 + j)

Null  == 0                 \* nullptr / no GEM handle
BadFd == 0                 \* a descriptor that names no memory object

\* status codes
ERROR_NONE         == "None"
ERROR_BAD_HANDLE   == "BadHandle"
ERROR_NO_RESOURCES == "NoResources"
ERROR_UNSUPPORTED  == "Unsupported"

VARIABLES
    buffers_,   \* std::unordered_map<uint32_t, cros_gralloc_buffer *>
    handles_,   \* std::unordered_map<handle, pair<cros_gralloc_buffer *, int32_t>>
    bufs,       \* heap of cros_gralloc_buffer objects, by pointer
    hmem,       \* memory of the handle structs, by pointer
    gem,        \* device file: memory object -> GEM handle (Null: none)
    bos,        \* memory objects with a live backend allocation (struct bo)
    last,       \* the call that returned last, with its status
    dev,        \* the render nodes, and drv_ with the status init returned
    mutex_,     \* owner of the mutex (Null: free)              [SpecMT]
    pc,         \* position of each thread                      [SpecMT]
    loc         \* locals of each thread's current call         [SpecMT]

tables == <<buffers_, handles_, bufs, hmem, gem, bos>>
mtvars == <<mutex_, pc, loc>>
\* what a call of the single caller leaves alone, and what a thread's step does
rest   == <<mutex_, pc, loc, dev>>
seq    == <<last, dev>>
vars   == <<buffers_, handles_, bufs, hmem, gem, bos, last, dev, mutex_, pc, loc>>

\* The data the entry points work on, as one value.
State == [buffers_ |-> buffers_, handles_ |-> handles_, bufs |-> bufs,
          hmem |-> hmem, gem |-> gem, bos |-> bos]

NoBuffer == [state |-> "none", id |-> Null, refcount |-> 0, bo |-> Null, hnd |-> Null]
NoHandle == [alloc |-> FALSE, magic |-> FALSE, fd |-> BadFd]
NoCall   == [op |-> "none", h |-> Null, status |-> ERROR_NONE, fence |-> -1,
             valid |-> FALSE, reg |-> FALSE, buf |-> Null, store |-> Null,
             nbufs |-> 0]

\* ------------------------------------------------------- std::unordered_map
\* emplace inserts only when the key is absent.
emplace(map, k, v) == IF k \in DOMAIN map THEN map ELSE map @@ (k :> v)

erase(map, k) == [x \in DOMAIN map \ {k} |-> map[x]]

\* ------------------------------------------------------- cros_gralloc_buffer
\* new cros_gralloc_buffer(id, bo, hnd): reference count 1.
new_buffer(S, b, id, o, hnd) ==
    [S EXCEPT !.bufs[b] = [state |-> "live", id |-> id, refcount |-> 1,
                           bo |-> o, hnd |-> hnd]]

increase_refcount(S, b) == [S EXCEPT !.bufs[b].refcount = @ + 1]

decrease_refcount(S, b) == [S EXCEPT !.bufs[b].refcount = @ - 1]

\* drv_bo_destroy: the backend allocation goes, and with it the GEM handle.
drv_bo_destroy(S, o) == [S EXCEPT !.bos = @ \ {o}, !.gem[o] = Null]

\* delete buffer: the destructor destroys the backend allocation it owns.
\* Deleting an object that is not live is a double free ("corrupt").
delete_buffer(S, b) ==
    LET T == drv_bo_destroy(S, S.bufs[b].bo)
    IN [T EXCEPT !.bufs[b] = [NoBuffer EXCEPT
            !.state = IF S.bufs[b].state = "live" THEN "destroyed" ELSE "corrupt"]]

\* ------------------------------------------------------------ helpers
\* cros_gralloc_convert_handle: the handle, or nullptr when the magic is wrong.
cros_gralloc_convert_handle(S, handle) ==
    IF S.hmem[handle].magic THEN handle ELSE Null

get_buffer(S, hnd) ==
    IF hnd \in DOMAIN S.handles_ THEN S.handles_[hnd].first ELSE Null

\* handles_[hnd] (operator[]): the map afterwards; an absent key gets a
\* value-initialised entry (nullptr, 0).
subscript(map, k) ==
    IF k \in DOMAIN map THEN map ELSE map @@ (k :> [first |-> Null, second |-> 0])

\* (mutant) get_buffer subscripts the Registry without asking count() first.
get_buffer_lookup_unchecked(S, hnd) ==
    [S EXCEPT !.handles_ = subscript(@, hnd)]

\* What get_buffer leaves of the Registry: it subscripts only a key that
\* count() has found.
get_buffer_lookup(S, hnd) ==
    [S EXCEPT !.handles_ = IF hnd \in DOMAIN @ THEN subscript(@, hnd) ELSE @]

\* drmPrimeFDToHandle(drv_get_fd(drv_), fd, &id): the GEM handle of the memory
\* object behind fd; the kernel makes one (newid) when the object has none.
\* Fails on a descriptor that names no object.
drmPrimeFDToHandle(S, fd, newid) ==
    IF fd = BadFd THEN [ok |-> FALSE, id |-> Null, S |-> S]
    ELSE IF S.gem[fd] # Null THEN [ok |-> TRUE, id |-> S.gem[fd], S |-> S]
    ELSE [ok |-> TRUE, id |-> newid, S |-> [S EXCEPT !.gem[fd] = newid]]

FreeIds(S) == Ids \ {S.gem[o] : o \in Objs}

FreeBufPtrs(S) == {b \in BufPtrs : S.bufs[b].state = "none"}
FreeHandles(S) == {h \in Handles : ~S.hmem[h].alloc}
\* Memory objects nobody has a descriptor or GEM handle for.
FreshObjs(S) == {o \in Objs : S.gem[o] = Null /\ o \notin S.bos
                              /\ \A h \in Handles : S.hmem[h].fd # o}

\* Memory objects some handle struct has a descriptor of.
KnownObjs(S) == {S.hmem[h].fd : h \in Handles} \ {BadFd}

Min(s) == CHOOSE x \in s : \A y \in s : x <= y

\* ------------------------------------------------------------ Device Backend
\* drv_bo_create succeeded: a new memory object o with GEM handle id.
drv_bo_create(S, o, id) == [S EXCEPT !.bos = @ \cup {o}, !.gem[o] = id]

\* drv_bo_import succeeded: a backend allocation on the object behind fds[0],
\* under the GEM handle the device file has for it.
drv_bo_import(S, o) == [S EXCEPT !.bos = @ \cup {o}]

\* drv_bo_get_plane_handle(bo, 0).u32
drv_bo_get_plane_handle(S, o) == S.gem[o]

\* Buffer.lock and Buffer.unlock hand back what the backend mapping gives.
BufferResults == {ERROR_NONE, ERROR_UNSUPPORTED}

\* ------------------------------------------------------------ allocate
\* lines 113-140: the handle is filled in and the Buffer constructed.
allocate_build(S, o, hnd, b) ==
    LET T == [S EXCEPT !.hmem[hnd] = [alloc |-> TRUE, magic |-> TRUE, fd |-> o]]
    IN new_buffer(T, b, drv_bo_get_plane_handle(T, o), o, hnd)

\* line 143, under the mutex.
allocate_insert_buffer(S, b) ==
    [S EXCEPT !.buffers_ = emplace(@, S.bufs[b].id, b)]

\* line 144, under the mutex.
allocate_insert_handle(S, hnd, b) ==
    [S EXCEPT !.handles_ = emplace(@, hnd, [first |-> b, second |-> 1])]

allocate_insert(S, hnd, b) ==
    allocate_insert_handle(allocate_insert_buffer(S, b), hnd, b)

\* (mutant) the buffers-per-object count is not looked at.
allocate_multi_buffer(S, in) ==
    IF ~in.ok
    THEN [S |-> S, status |-> ERROR_NO_RESOURCES, handle |-> Null]
    ELSE LET S1 == drv_bo_create(S, in.o, in.id) IN
         IF in.hnd = Null \/ in.b = Null
         THEN [S |-> drv_bo_destroy(S1, in.o), status |-> ERROR_NO_RESOURCES,
               handle |-> Null]
         ELSE [S |-> allocate_insert(allocate_build(S1, in.o, in.hnd, in.b),
                                     in.hnd, in.b),
               status |-> ERROR_NONE, handle |-> in.hnd]

\* in: what the backend and the heap give this call
\*   ok (drv_bo_create succeeded), o, id (the new object and its GEM handle),
\*   nbufs (drv_num_buffers_per_bo), hnd, b (the addresses new returns).
allocate(S, in) ==
    IF ~in.ok
    THEN [S |-> S, status |-> ERROR_NO_RESOURCES, handle |-> Null]
    ELSE LET S1 == drv_bo_create(S, in.o, in.id) IN
         IF in.nbufs # 1
         THEN [S |-> drv_bo_destroy(S1, in.o), status |-> ERROR_NO_RESOURCES,
               handle |-> Null]
         ELSE [S |-> allocate_insert(allocate_build(S1, in.o, in.hnd, in.b),
                                     in.hnd, in.b),
               status |-> ERROR_NONE, handle |-> in.hnd]

\* ------------------------------------------------------------ retain
\* (mutant) the per-handle count goes up, the Buffer's reference count does not.
retain_known_handle_only(S, hnd, buffer) ==
    [S EXCEPT !.handles_[hnd].second = @ + 1]

\* lines 162-163: the handle is registered already.
retain_known(S, hnd, buffer) ==
    increase_refcount([S EXCEPT !.handles_[hnd].second = @ + 1], buffer)

\* (mutant) the second handle is registered without a reference of its own.
retain_shared_no_ref(S, hnd, id) ==
    [S EXCEPT !.handles_ = emplace(@, hnd, [first |-> S.buffers_[id], second |-> 1])]

\* lines 172-174 and 202: the identity is in the Buffer Table.
retain_shared(S, hnd, id) ==
    LET buffer == S.buffers_[id]
        T == increase_refcount(S, buffer)
    IN [T EXCEPT !.handles_ = emplace(@, hnd, [first |-> buffer, second |-> 1])]

\* lines 192-202: a fresh import succeeded.
retain_import(S, hnd, b) ==
    LET o  == S.hmem[hnd].fd
        S1 == drv_bo_import(S, o)
        id == drv_bo_get_plane_handle(S1, o)
        S2 == new_buffer(S1, b, id, o, Null)
    IN [S2 EXCEPT !.buffers_ = emplace(@, id, b),
                  !.handles_ = emplace(@, hnd, [first |-> b, second |-> 1])]

\* (mutant) the Registry entry is inserted before the import is tried and is
\* not taken back when the import fails.
retain_no_rollback(S, handle, in) ==
    LET hnd == cros_gralloc_convert_handle(S, handle) IN
    IF hnd = Null THEN [S |-> S, status |-> ERROR_BAD_HANDLE]
    ELSE LET buffer == get_buffer(S, hnd)
             T == get_buffer_lookup(S, hnd) IN
    IF buffer # Null
    THEN [S |-> retain_known(T, hnd, buffer), status |-> ERROR_NONE]
    ELSE LET p == drmPrimeFDToHandle(T, T.hmem[hnd].fd, in.newid) IN
    IF ~p.ok THEN [S |-> p.S, status |-> ERROR_BAD_HANDLE]
    ELSE IF p.id \in DOMAIN p.S.buffers_
    THEN [S |-> retain_shared(p.S, hnd, p.id), status |-> ERROR_NONE]
    ELSE IF ~in.import_ok
    THEN [S |-> [p.S EXCEPT !.handles_ =
                     emplace(@, hnd, [first |-> Null, second |-> 1])],
          status |-> ERROR_NO_RESOURCES]
    ELSE [S |-> retain_import(p.S, hnd, in.b), status |-> ERROR_NONE]

\* (mutant) a descriptor that cannot be resolved is reported as a failed import.
retain_unresolved_as_import(S, handle, in) ==
    LET hnd == cros_gralloc_convert_handle(S, handle) IN
    IF hnd = Null THEN [S |-> S, status |-> ERROR_BAD_HANDLE]
    ELSE LET buffer == get_buffer(S, hnd)
             T == get_buffer_lookup(S, hnd) IN
    IF buffer # Null
    THEN [S |-> retain_known(T, hnd, buffer), status |-> ERROR_NONE]
    ELSE LET p == drmPrimeFDToHandle(T, T.hmem[hnd].fd, in.newid) IN
    IF ~p.ok THEN [S |-> p.S, status |-> ERROR_NO_RESOURCES]
    ELSE IF p.id \in DOMAIN p.S.buffers_
    THEN [S |-> retain_shared(p.S, hnd, p.id), status |-> ERROR_NONE]
    ELSE IF ~in.import_ok
    THEN [S |-> p.S, status |-> ERROR_NO_RESOURCES]
    ELSE [S |-> retain_import(p.S, hnd, in.b), status |-> ERROR_NONE]

\* (mutant) the Buffer Table is not consulted: an unregistered handle is
\* always imported afresh.
retain_always_import(S, handle, in) ==
    LET hnd == cros_gralloc_convert_handle(S, handle) IN
    IF hnd = Null THEN [S |-> S, status |-> ERROR_BAD_HANDLE]
    ELSE LET buffer == get_buffer(S, hnd)
             T == get_buffer_lookup(S, hnd) IN
    IF buffer # Null
    THEN [S |-> retain_known(T, hnd, buffer), status |-> ERROR_NONE]
    ELSE LET p == drmPrimeFDToHandle(T, T.hmem[hnd].fd, in.newid) IN
    IF ~p.ok THEN [S |-> p.S, status |-> ERROR_BAD_HANDLE]
    ELSE IF ~in.import_ok
    THEN [S |-> p.S, status |-> ERROR_NO_RESOURCES]
    ELSE [S |-> retain_import(p.S, hnd, in.b), status |-> ERROR_NONE]

\* in: newid (the GEM handle the kernel makes if the object has none),
\*     import_ok (drv_bo_import succeeds), b (the address new returns).
retain(S, handle, in) ==
    LET hnd == cros_gralloc_convert_handle(S, handle) IN
    IF hnd = Null THEN [S |-> S, status |-> ERROR_BAD_HANDLE]
    ELSE LET buffer == get_buffer(S, hnd)
             T == get_buffer_lookup(S, hnd) IN
    IF buffer # Null
    THEN [S |-> retain_known(T, hnd, buffer), status |-> ERROR_NONE]
    ELSE LET p == drmPrimeFDToHandle(T, T.hmem[hnd].fd, in.newid) IN
    IF ~p.ok THEN [S |-> p.S, status |-> ERROR_BAD_HANDLE]
    ELSE IF p.id \in DOMAIN p.S.buffers_
    THEN [S |-> retain_shared(p.S, hnd, p.id), status |-> ERROR_NONE]
    ELSE IF ~in.import_ok
    THEN [S |-> p.S, status |-> ERROR_NO_RESOURCES]
    ELSE [S |-> retain_import(p.S, hnd, in.b), status |-> ERROR_NONE]

\* ------------------------------------------------------------ release
\* (mutant) the count is tested before it is decremented (second-- for
\* --second), so the entry is never erased.
release_handle_post_decrement(S, hnd) ==
    IF S.handles_[hnd].second = 0
    THEN [S EXCEPT !.handles_ = erase(@, hnd)]
    ELSE [S EXCEPT !.handles_[hnd].second = @ - 1]

\* lines 222-223
release_handle(S, hnd) ==
    IF S.handles_[hnd].second - 1 = 0
    THEN [S EXCEPT !.handles_ = erase(@, hnd)]
    ELSE [S EXCEPT !.handles_[hnd].second = @ - 1]

\* (mutant) the Buffer is deleted without being taken out of the Buffer Table.
release_buffer_no_erase(S, buffer) ==
    LET T == decrease_refcount(S, buffer) IN
    IF T.bufs[buffer].refcount = 0 THEN delete_buffer(T, buffer) ELSE T

\* (mutant) the Buffer is destroyed while one reference is left.
release_buffer_early(S, buffer) ==
    LET T == decrease_refcount(S, buffer) IN
    IF T.bufs[buffer].refcount <= 1
    THEN delete_buffer([T EXCEPT !.buffers_ = erase(@, T.bufs[buffer].id)], buffer)
    ELSE T

\* lines 225-228
release_buffer(S, buffer) ==
    LET T == decrease_refcount(S, buffer) IN
    IF T.bufs[buffer].refcount = 0
    THEN delete_buffer([T EXCEPT !.buffers_ = erase(@, T.bufs[buffer].id)], buffer)
    ELSE T

\* (mutant) the Buffer is destroyed when the handle's own entry goes, whatever
\* other handles still reference it.
release_destroy_with_entry(S, handle) ==
    LET hnd == cros_gralloc_convert_handle(S, handle) IN
    IF hnd = Null THEN [S |-> S, status |-> ERROR_BAD_HANDLE]
    ELSE LET buffer == get_buffer(S, hnd) IN
    IF buffer = Null
    THEN [S |-> get_buffer_lookup(S, hnd), status |-> ERROR_BAD_HANDLE]
    ELSE LET T == decrease_refcount(release_handle(S, hnd), buffer) IN
         [S |-> IF hnd \notin DOMAIN T.handles_
                THEN delete_buffer([T EXCEPT !.buffers_ =
                                       erase(@, T.bufs[buffer].id)], buffer)
                ELSE T,
          status |-> ERROR_NONE]

\* (mutant) an unregistered handle is reported as released.
release_unknown_ok(S, handle) ==
    LET hnd == cros_gralloc_convert_handle(S, handle) IN
    IF hnd = Null THEN [S |-> S, status |-> ERROR_BAD_HANDLE]
    ELSE LET buffer == get_buffer(S, hnd) IN
    IF buffer = Null
    THEN [S |-> get_buffer_lookup(S, hnd), status |-> ERROR_NONE]
    ELSE [S |-> release_buffer(release_handle(S, hnd), buffer),
          status |-> ERROR_NONE]

release(S, handle) ==
    LET hnd == cros_gralloc_convert_handle(S, handle) IN
    IF hnd = Null THEN [S |-> S, status |-> ERROR_BAD_HANDLE]
    ELSE LET buffer == get_buffer(S, hnd)
             T == get_buffer_lookup(S, hnd) IN
    IF buffer = Null THEN [S |-> T, status |-> ERROR_BAD_HANDLE]
    ELSE [S |-> release_buffer(release_handle(T, hnd), buffer),
          status |-> ERROR_NONE]

\* ------------------------------------------------------------ queries
\* (mutant) the Registry is subscripted with whatever handle comes in.
query_lookup_subscript(S, handle) ==
    [S EXCEPT !.handles_ = subscript(@, handle)]

\* lines 238-248, 262-272, 281-291: what the handle checks of lock, unlock and
\* get_backing_store leave of the state.
query_lookup(S, handle) ==
    LET hnd == cros_gralloc_convert_handle(S, handle) IN
    IF hnd = Null THEN S ELSE get_buffer_lookup(S, hnd)

\* (mutant) the fence is looked at before the handle.
lock_fence_first(S, handle, acquire_fence, r) ==
    IF acquire_fence >= 0 THEN [status |-> ERROR_UNSUPPORTED, buf |-> Null]
    ELSE LET hnd == cros_gralloc_convert_handle(S, handle) IN
    IF hnd = Null THEN [status |-> ERROR_BAD_HANDLE, buf |-> Null]
    ELSE LET buffer == get_buffer(S, hnd) IN
    IF buffer = Null THEN [status |-> ERROR_BAD_HANDLE, buf |-> Null]
    ELSE [status |-> r, buf |-> buffer]

\* r: what Buffer.lock returns.
lock(S, handle, acquire_fence, r) ==
    LET hnd == cros_gralloc_convert_handle(S, handle) IN
    IF hnd = Null THEN [status |-> ERROR_BAD_HANDLE, buf |-> Null]
    ELSE LET buffer == get_buffer(S, hnd) IN
    IF buffer = Null THEN [status |-> ERROR_BAD_HANDLE, buf |-> Null]
    ELSE IF acquire_fence >= 0 THEN [status |-> ERROR_UNSUPPORTED, buf |-> buffer]
    ELSE [status |-> r, buf |-> buffer]

\* r: what Buffer.unlock returns.
unlock(S, handle, r) ==
    LET hnd == cros_gralloc_convert_handle(S, handle) IN
    IF hnd = Null THEN [status |-> ERROR_BAD_HANDLE, buf |-> Null]
    ELSE LET buffer == get_buffer(S, hnd) IN
    IF buffer = Null THEN [status |-> ERROR_BAD_HANDLE, buf |-> Null]
    ELSE [status |-> r, buf |-> buffer]

\* static_cast<uint64_t>(uint32_t): the 64-bit value as its two 32-bit
\* halves; the upper half of a widened unsigned value is zero.
static_cast_uint64(x) == [hi |-> 0, lo |-> x]

\* (mutant) the token is taken from the handle, not from the Buffer.
get_backing_store_of_handle(S, handle) ==
    LET hnd == cros_gralloc_convert_handle(S, handle) IN
    IF hnd = Null THEN [status |-> ERROR_BAD_HANDLE, buf |-> Null, store |-> Null]
    ELSE LET buffer == get_buffer(S, hnd) IN
    IF buffer = Null THEN [status |-> ERROR_BAD_HANDLE, buf |-> Null, store |-> Null]
    ELSE [status |-> ERROR_NONE, buf |-> buffer, store |-> static_cast_uint64(hnd)]

\* store: the value written to *out_store (Null: nothing written).
get_backing_store(S, handle) ==
    LET hnd == cros_gralloc_convert_handle(S, handle) IN
    IF hnd = Null THEN [status |-> ERROR_BAD_HANDLE, buf |-> Null, store |-> Null]
    ELSE LET buffer == get_buffer(S, hnd) IN
    IF buffer = Null THEN [status |-> ERROR_BAD_HANDLE, buf |-> Null, store |-> Null]
    ELSE [status |-> ERROR_NONE, buf |-> buffer,
          store |-> static_cast_uint64(S.bufs[buffer].id)]

\* combo: drv_get_combination found a combination for the format and usage.
is_supported(combo) == combo

\* ------------------------------------------------------------ init
\* line 41: const char *undesired[2] = { "vgem", nullptr }; "" is nullptr.
undesired == <<"vgem", "">>

\* A render node as init meets it: open() succeeds or not, drmGetVersion()
\* gives a version or not, the driver name, and what drv_create gives at each
\* of the two attempts init can make on the node.
NodeKinds ==
    {[open |-> FALSE, version |-> FALSE, name |-> "", create |-> <<FALSE, FALSE>>],
     [open |-> TRUE, version |-> FALSE, name |-> "", create |-> <<FALSE, FALSE>>]}
    \cup [open : {TRUE}, version : {TRUE}, name : {"vgem", "i915"},
          create : {<<a, b>> : a, b \in BOOLEAN}]

\* (mutant) the name is not compared with undesired[i].
RECURSIVE probe_unfiltered(_, _, _)
probe_unfiltered(nodes, i, j) ==
    IF i > Len(undesired) THEN [status |-> ERROR_NO_RESOURCES, drv_ |-> Null]
    ELSE IF j > NumNodes THEN probe_unfiltered(nodes, i + 1, 1)
    ELSE IF ~nodes[j].open THEN probe_unfiltered(nodes, i, j + 1)
    ELSE IF ~nodes[j].version THEN probe_unfiltered(nodes, i, j + 1)
    ELSE IF nodes[j].create[i] THEN [status |-> ERROR_NONE, drv_ |-> j]
    ELSE probe_unfiltered(nodes, i, j + 1)

\* lines 46-74: the two nested loops, from pass i and node j on.
RECURSIVE probe(_, _, _)
probe(nodes, i, j) ==
    IF i > Len(undesired) THEN [status |-> ERROR_NO_RESOURCES, drv_ |-> Null]
    ELSE IF j > NumNodes THEN probe(nodes, i + 1, 1)
    ELSE IF ~nodes[j].open THEN probe(nodes, i, j + 1)
    ELSE IF ~nodes[j].version THEN probe(nodes, i, j + 1)
    ELSE IF undesired[i] # "" /\ nodes[j].name = undesired[i]
    THEN probe(nodes, i, j + 1)
    ELSE IF nodes[j].create[i] THEN [status |-> ERROR_NONE, drv_ |-> j]
    ELSE probe(nodes, i, j + 1)

init(nodes) == probe(nodes, 1, 1)

\* The driver of the other specifications: init has selected the first node.
ReadyDevice ==
    [nodes |-> [j \in Nodes |-> [open |-> TRUE, version |-> TRUE, name |-> "i915",
                                 create |-> <<TRUE, TRUE>>]],
     drv_ |-> 1, status |-> ERROR_NONE]

\* ------------------------------------------------------------ initial state
NoLoc == [h |-> Null, o |-> Null, hnd |-> Null, b |-> Null]

Init ==
    /\ buffers_ = << >>
    /\ handles_ = << >>
    /\ bufs = [b \in BufPtrs |-> NoBuffer]
    /\ hmem = [h \in Handles |->
                 IF h = BadMagicHandle
                 THEN [alloc |-> TRUE, magic |-> FALSE, fd |-> BadFd]
                 ELSE IF h = DeadFdHandle
                 THEN [alloc |-> TRUE, magic |-> TRUE, fd |-> BadFd]
                 ELSE NoHandle]
    /\ gem = [o \in Objs |-> Null]
    /\ bos = {}
    /\ last = NoCall
    /\ dev = ReadyDevice
    /\ mutex_ = Null
    /\ pc = [t \in Threads |-> "idle"]
    /\ loc = [t \in Threads |-> NoLoc]

Commit(T) ==
    /\ buffers_' = T.buffers_
    /\ handles_' = T.handles_
    /\ bufs' = T.bufs
    /\ hmem' = T.hmem
    /\ gem' = T.gem
    /\ bos' = T.bos

\* The handle structs a caller can pass.
Allocated == {h \in Handles : hmem[h].alloc}

\* Counts stay within the model's cap.
WithinCap(T) == \A b \in BufPtrs : T.bufs[b].refcount <= MaxCount

PickOr(s) == IF s = {} THEN Null ELSE Min(s)
\* The kernel hands out the lowest GEM handle value that is free.
NewIds(S) == {PickOr(FreeIds(S))}

Call(op, h, status, fence, buf, store) ==
    [op |-> op, h |-> h, status |-> status, fence |-> fence,
     valid |-> IF h \in Handles THEN hmem[h].magic ELSE FALSE,
     reg |-> h \in DOMAIN handles_, buf |-> buf, store |-> store, nbufs |-> 0]

\* A lookup writes nothing but, possibly, the Registry.
CommitLookup(T) ==
    /\ handles_' = T.handles_
    /\ UNCHANGED <<buffers_, bufs, hmem, gem, bos>>

\* ------------------------------------------------------------ the callers
QueryOps == {"lock", "unlock", "get_backing_store", "is_supported"}

\* The caller is between calls: the result of a query has been taken, and the
\* driver has not been destroyed.
Ready == last.op \notin QueryOps \cup {"destructor"}

\* The caller has taken the result of the call before and asks a question.
Asking == last.op = "none"

\* The caller takes the result of a call and goes on.
Resume ==
    /\ last.op \notin {"none", "destructor"}
    /\ last' = NoCall
    /\ UNCHANGED <<tables, rest>>

\* A client receives a handle struct: a well-formed struct whose fds[0] is a
\* descriptor of some memory object (one allocated here or elsewhere).
MakeHandle ==
    /\ Ready
    /\ FreeHandles(State) # {}
    /\ \E f \in KnownObjs(State) \cup {PickOr(FreshObjs(State))} :
        hmem' = [hmem EXCEPT ![Min(FreeHandles(State))] =
                     [alloc |-> TRUE, magic |-> TRUE, fd |-> f]]
    /\ last' = NoCall
    /\ UNCHANGED <<buffers_, handles_, bufs, gem, bos, rest>>

Allocate ==
    /\ Ready
    /\ \E ok \in BOOLEAN, nbufs \in {1, 2}, id \in NewIds(State) :
        LET in == [ok |-> ok, o |-> PickOr(FreshObjs(State)), id |-> id,
                   nbufs |-> nbufs, hnd |-> PickOr(FreeHandles(State)),
                   b |-> PickOr(FreeBufPtrs(State))]
            r == allocate(State, in)
        IN /\ ok => in.o # Null /\ in.id # Null
           /\ ok /\ nbufs = 1 => in.hnd # Null /\ in.b # Null
           /\ ~ok => nbufs = 1
           /\ Commit(r.S)
           /\ last' = [Call("allocate", r.handle, r.status, -1,
                            IF r.status = ERROR_NONE THEN in.b ELSE Null, Null)
                       EXCEPT !.valid = FALSE, !.reg = FALSE,
                              !.nbufs = IF ok THEN nbufs ELSE 0]
           /\ UNCHANGED rest

Retain(h) ==
    /\ Ready
    /\ \E newid \in NewIds(State), import_ok \in BOOLEAN :
        LET in == [newid |-> newid, import_ok |-> import_ok,
                   b |-> PickOr(FreeBufPtrs(State))]
            r == retain(State, h, in)
        IN /\ import_ok => in.b # Null
           /\ WithinCap(r.S)
           /\ Commit(r.S)
           /\ last' = Call("retain", h, r.status, -1, get_buffer(r.S, h), Null)
           /\ UNCHANGED rest

Release(h) ==
    LET r == release(State, h)
    IN /\ Ready
       /\ Commit(r.S)
       /\ last' = Call("release", h, r.status, -1, get_buffer(State, h),
                       IF get_buffer(State, h) = Null THEN Null
                       ELSE bufs[get_buffer(State, h)].id)
       /\ UNCHANGED rest

Lock(h) ==
    /\ Asking
    /\ \E acquire_fence \in {-1, 0}, res \in BufferResults :
        LET r == lock(State, h, acquire_fence, res)
        IN /\ CommitLookup(query_lookup(State, h))
           /\ last' = Call("lock", h, r.status, acquire_fence, r.buf, Null)
           /\ UNCHANGED rest

Unlock(h) ==
    /\ Asking
    /\ \E res \in BufferResults :
        LET r == unlock(State, h, res)
        IN /\ CommitLookup(query_lookup(State, h))
           /\ last' = Call("unlock", h, r.status, -1, r.buf, Null)
           /\ UNCHANGED rest

GetBackingStore(h) ==
    LET r == get_backing_store(State, h)
    IN /\ Asking
       /\ CommitLookup(query_lookup(State, h))
       /\ last' = Call("get_backing_store", h, r.status, -1, r.buf, r.store)
       /\ UNCHANGED rest

IsSupported ==
    /\ Asking
    /\ \E combo \in BOOLEAN :
        /\ last' = [NoCall EXCEPT !.op = "is_supported",
                       !.status = IF is_supported(combo) THEN "true" ELSE "false"]
        /\ UNCHANGED <<tables, rest>>

\* The calls that write the tables, and the callers that feed them handles.
NextTables ==
    \/ MakeHandle
    \/ Allocate
    \/ \E h \in Allocated : Retain(h)
    \/ \E h \in Allocated : Release(h)

NextQueries ==
    \/ \E h \in Allocated : Lock(h)
    \/ \E h \in Allocated : Unlock(h)
    \/ \E h \in Allocated : GetBackingStore(h)
    \/ IsSupported
    \/ Resume

Next == NextTables \/ NextQueries

\* All entry points, called one at a time.
Spec == Init /\ [][Next]_vars

\* Sequences of allocate, retain and release calls only.
SpecTables == Init /\ [][NextTables]_vars

\* ------------------------------------------------------------ destruction
\* std::unordered_map::clear(): the entries go; what the pointers in them
\* point to is not touched.
clear(map) == << >>

\* drv_destroy(drv_); drv_ = nullptr (lines 23-26)
drv_destroy(d) == [d EXCEPT !.drv_ = Null]

\* lines 20-21
destructor(S) ==
    [S EXCEPT !.buffers_ = clear(@), !.handles_ = clear(@)]

\* ~cros_gralloc_driver, between two calls.
Destructor ==
    /\ Ready
    /\ Commit(destructor(State))
    /\ dev' = IF dev.drv_ # Null THEN drv_destroy(dev) ELSE dev
    /\ last' = [NoCall EXCEPT !.op = "destructor"]
    /\ UNCHANGED mtvars

NextTeardown == NextTables \/ Destructor

\* allocate, retain and release calls, and at some point the destructor.
SpecTeardown == Init /\ [][NextTeardown]_vars

\* ------------------------------------------------------------ construction
\* The constructor has run (drv_ is nullptr) on a machine with some render
\* nodes; init has not been called.
InitProbe ==
    /\ buffers_ = << >> /\ handles_ = << >>
    /\ bufs = [b \in BufPtrs |-> NoBuffer]
    /\ hmem = [h \in Handles |-> NoHandle]
    /\ gem = [o \in Objs |-> Null]
    /\ bos = {}
    /\ last = NoCall
    /\ dev \in [nodes : [Nodes -> NodeKinds], drv_ : {Null}, status : {"uninit"}]
    /\ mutex_ = Null
    /\ pc = [t \in Threads |-> "idle"]
    /\ loc = [t \in Threads |-> NoLoc]

DriverInit ==
    /\ dev.status = "uninit"
    /\ LET r == init(dev.nodes)
       IN dev' = [dev EXCEPT !.drv_ = r.drv_, !.status = r.status]
    /\ last' = [NoCall EXCEPT !.op = "init"]
    /\ UNCHANGED <<tables, mtvars>>

\* Construction followed by init, on every set of render nodes.
SpecInit == InitProbe /\ [][DriverInit]_vars

\* ================================================================ threads
\* (mutant) the guard is constructed without taking the mutex.
lock_guard_missing(m, t) == m

\* std::lock_guard<std::mutex> lock(mutex_): the caller waits until the mutex
\* is free and owns it from then on.
lock_guard(m, t) == t

\* The guard goes out of scope at the return.
unlock_guard(m, t) == IF m = t THEN Null ELSE m

Idle(t) == pc[t] = "idle"

Goto(t, where, l) ==
    /\ pc' = [pc EXCEPT ![t] = where]
    /\ loc' = [loc EXCEPT ![t] = l]

\* The Buffer whose reference count retain(h) would raise (Null: none).
RetainTarget(S, h) ==
    IF ~S.hmem[h].magic THEN Null
    ELSE IF h \in DOMAIN S.handles_ THEN S.handles_[h].first
    ELSE IF S.hmem[h].fd # BadFd /\ S.gem[S.hmem[h].fd] \in DOMAIN S.buffers_
    THEN S.buffers_[S.gem[S.hmem[h].fd]]
    ELSE Null

\* The handles callers hold: a handle allocate is still building is known to
\* the allocating thread alone until line 145 hands it out.
Published == Allocated \ {loc[t].hnd : t \in Threads}

\* A client makes a handle struct while other threads run; its fds[0] is a
\* descriptor of a memory object behind a handle it holds, or of a new one.
MTMakeHandle ==
    /\ FreeHandles(State) # {}
    /\ \E f \in ({hmem[h].fd : h \in Published} \ {BadFd})
                 \cup {PickOr(FreshObjs(State))} :
        hmem' = [hmem EXCEPT ![Min(FreeHandles(State))] =
                     [alloc |-> TRUE, magic |-> TRUE, fd |-> f]]
    /\ UNCHANGED <<buffers_, handles_, bufs, gem, bos, seq, mtvars>>

\* ---- is_supported: lines 77-83, no lock taken
IsSupportedCall(t) ==
    /\ Idle(t)
    /\ Goto(t, "is_supported", NoLoc)
    /\ UNCHANGED <<tables, seq, mutex_>>

IsSupportedReturn(t) ==
    /\ pc[t] = "is_supported"
    /\ \E combo \in BOOLEAN : is_supported(combo) \in BOOLEAN
    /\ Goto(t, "idle", NoLoc)
    /\ UNCHANGED <<tables, seq, mutex_>>

\* ---- allocate
\* lines 95-100: drv_bo_create, without the mutex.
AllocCreate(t) ==
    /\ Idle(t)
    /\ \E ok \in BOOLEAN :
        IF ok
        THEN /\ FreshObjs(State) # {} /\ FreeIds(State) # {}
             /\ LET o == Min(FreshObjs(State))
                IN /\ Commit(drv_bo_create(State, o, Min(FreeIds(State))))
                   /\ Goto(t, "alloc_check", [NoLoc EXCEPT !.o = o])
        ELSE UNCHANGED <<tables, pc, loc>>
    /\ UNCHANGED <<seq, mutex_>>

\* lines 107-140: the one-buffer check, then the handle and the Buffer are
\* built, still without the mutex.
AllocCheck(t) ==
    /\ pc[t] = "alloc_check"
    /\ \E nbufs \in {1, 2} :
        IF nbufs # 1
        THEN /\ Commit(drv_bo_destroy(State, loc[t].o))
             /\ Goto(t, "idle", NoLoc)
        ELSE /\ FreeHandles(State) # {} /\ FreeBufPtrs(State) # {}
             /\ LET hnd == Min(FreeHandles(State))
                    b == Min(FreeBufPtrs(State))
                IN /\ Commit(allocate_build(State, loc[t].o, hnd, b))
                   /\ Goto(t, "alloc_lock", [loc[t] EXCEPT !.hnd = hnd, !.b = b])
    /\ UNCHANGED <<seq, mutex_>>

\* (mutant) allocate goes on to the inserts without the lock_guard.
AllocLock_skipped(t) ==
    /\ pc[t] = "alloc_lock"
    /\ Goto(t, "alloc_insert", loc[t])
    /\ UNCHANGED <<tables, seq, mutex_>>

\* line 142
AllocLock(t) ==
    /\ pc[t] = "alloc_lock"
    /\ mutex_ = Null
    /\ mutex_' = lock_guard(mutex_, t)
    /\ Goto(t, "alloc_insert", loc[t])
    /\ UNCHANGED <<tables, seq>>

\* line 143
AllocInsertBuffer(t) ==
    /\ pc[t] = "alloc_insert"
    /\ Commit(allocate_insert_buffer(State, loc[t].b))
    /\ Goto(t, "alloc_insert2", loc[t])
    /\ UNCHANGED <<seq, mutex_>>

\* lines 144-146
AllocInsertHandle(t) ==
    /\ pc[t] = "alloc_insert2"
    /\ Commit(allocate_insert_handle(State, loc[t].hnd, loc[t].b))
    /\ mutex_' = unlock_guard(mutex_, t)
    /\ Goto(t, "idle", NoLoc)
    /\ UNCHANGED seq

\* ---- retain
\* line 152
RetainLock(t, h) ==
    /\ Idle(t)
    /\ mutex_ = Null
    /\ RetainTarget(State, h) # Null =>
           bufs[RetainTarget(State, h)].refcount < MaxCount
    /\ mutex_' = lock_guard(mutex_, t)
    /\ Goto(t, "retain", [NoLoc EXCEPT !.h = h])
    /\ UNCHANGED <<tables, seq>>

\* lines 154-204
RetainBody(t) ==
    /\ pc[t] = "retain"
    /\ \E import_ok \in BOOLEAN :
        LET in == [newid |-> PickOr(FreeIds(State)), import_ok |-> import_ok,
                   b |-> PickOr(FreeBufPtrs(State))]
        IN /\ import_ok => in.b # Null
           /\ Commit(retain(State, loc[t].h, in).S)
    /\ mutex_' = unlock_guard(mutex_, t)
    /\ Goto(t, "idle", NoLoc)
    /\ UNCHANGED seq

\* ---- release
\* line 208
ReleaseLock(t, h) ==
    /\ Idle(t)
    /\ mutex_ = Null
    /\ mutex_' = lock_guard(mutex_, t)
    /\ Goto(t, "release", [NoLoc EXCEPT !.h = h])
    /\ UNCHANGED <<tables, seq>>

\* (mutant) the per-handle count and the Buffer's count are changed under two
\* separate guards: the mutex is free between them.
ReleaseHandle_two_guards(t) ==
    /\ pc[t] = "release"
    /\ LET hnd == cros_gralloc_convert_handle(State, loc[t].h)
           buffer == IF hnd = Null THEN Null ELSE get_buffer(State, hnd)
       IN IF buffer = Null
          THEN /\ Goto(t, "idle", NoLoc)
               /\ Commit(query_lookup(State, loc[t].h))
          ELSE /\ Commit(release_handle(get_buffer_lookup(State, hnd), hnd))
               /\ Goto(t, "release2", [loc[t] EXCEPT !.b = buffer])
    /\ mutex_' = unlock_guard(mutex_, t)
    /\ UNCHANGED seq

\* lines 210-223: the checks, then the per-handle count.
ReleaseHandle(t) ==
    /\ pc[t] = "release"
    /\ LET hnd == cros_gralloc_convert_handle(State, loc[t].h)
           buffer == IF hnd = Null THEN Null ELSE get_buffer(State, hnd)
       IN IF buffer = Null
          THEN /\ mutex_' = unlock_guard(mutex_, t)
               /\ Goto(t, "idle", NoLoc)
               /\ Commit(query_lookup(State, loc[t].h))
          ELSE /\ Commit(release_handle(get_buffer_lookup(State, hnd), hnd))
               /\ Goto(t, "release2", [loc[t] EXCEPT !.b = buffer])
               /\ UNCHANGED mutex_
    /\ UNCHANGED seq

\* lines 225-230: the Buffer's count.
ReleaseBuffer(t) ==
    /\ pc[t] = "release2"
    /\ Commit(release_buffer(State, loc[t].b))
    /\ mutex_' = unlock_guard(mutex_, t)
    /\ Goto(t, "idle", NoLoc)
    /\ UNCHANGED seq

\* ---- lock, unlock, get_backing_store
\* lines 236, 260, 279
QueryLock(t, op, h) ==
    /\ Idle(t)
    /\ mutex_ = Null
    /\ mutex_' = lock_guard(mutex_, t)
    /\ Goto(t, op, [NoLoc EXCEPT !.h = h])
    /\ UNCHANGED <<tables, seq>>

\* lines 238-255, 262-274, 281-294
QueryBody(t) ==
    /\ pc[t] \in {"lock", "unlock", "get_backing_store"}
    /\ \E res \in BufferResults, fence \in {-1, 0} :
        CASE pc[t] = "lock" ->
                lock(State, loc[t].h, fence, res).status \in STRING
          [] pc[t] = "unlock" ->
                unlock(State, loc[t].h, res).status \in STRING
          [] OTHER ->
                get_backing_store(State, loc[t].h).status \in STRING
    /\ CommitLookup(query_lookup(State, loc[t].h))
    /\ mutex_' = unlock_guard(mutex_, t)
    /\ Goto(t, "idle", NoLoc)
    /\ UNCHANGED seq

NextMT ==
    \/ MTMakeHandle
    \/ \E t \in Threads : IsSupportedCall(t)
    \/ \E t \in Threads : IsSupportedReturn(t)
    \/ \E t \in Threads : AllocCreate(t)
    \/ \E t \in Threads : AllocCheck(t)
    \/ \E t \in Threads : AllocLock(t)
    \/ \E t \in Threads : AllocInsertBuffer(t)
    \/ \E t \in Threads : AllocInsertHandle(t)
    \/ \E t \in Threads, h \in Published : RetainLock(t, h)
    \/ \E t \in Threads : RetainBody(t)
    \/ \E t \in Threads, h \in Published : ReleaseLock(t, h)
    \/ \E t \in Threads : ReleaseHandle(t)
    \/ \E t \in Threads : ReleaseBuffer(t)
    \/ \E t \in Threads, h \in Published :
          \E op \in {"lock", "unlock", "get_backing_store"} : QueryLock(t, op, h)
    \/ \E t \in Threads : QueryBody(t)

\* Several threads call the entry points concurrently.
SpecMT == Init /\ [][NextMT]_vars

\* ================================================================ properties
RECURSIVE SumSecond(_, _)
SumSecond(map, D) ==
    IF D = {} THEN 0
    ELSE LET x == CHOOSE y \in D : TRUE
         IN map[x].second + SumSecond(map, D \ {x})

\* The Registry entries that reference Buffer b, and the sum of their counts.
EntriesOf(S, b) == {h \in DOMAIN S.handles_ : S.handles_[h].first = b}
HandleCountSum(S, b) == SumSecond(S.handles_, EntriesOf(S, b))

Live(S) == {b \in BufPtrs : S.bufs[b].state = "live"}

\* The Buffer Table as a caller can tell it: identity -> reference count.
TableView(S) == [id \in DOMAIN S.buffers_ |-> S.bufs[S.buffers_[id]].refcount]

Registered == DOMAIN handles_

\* C1: after any sequence of allocate, retain and release calls, the reference
\* count of every live Buffer equals the sum of the per-handle counts of the
\* Handle Registry entries that reference it.
C1_RefcountIsSumOfHandleCounts ==
    \A b \in Live(State) : bufs[b].refcount = HandleCountSum(State, b)

C1_Witness ==
    /\ last.op = "retain" /\ last.status = ERROR_NONE
    /\ \E h1, h2 \in Registered :
        /\ h1 # h2
        /\ handles_[h1].first = handles_[h2].first
        /\ bufs[handles_[h1].first].refcount = 2

\* C2: the Buffer Table has an entry for an identity iff a Buffer with that
\* identity exists with reference count > 0; the release that brings a
\* Buffer's reference count to 0 takes its identity out of the Buffer Table.
C2_TableEntryIffReferenced ==
    /\ \A id \in Ids :
        id \in DOMAIN buffers_ <=>
            \E b \in Live(State) : bufs[b].id = id /\ bufs[b].refcount > 0
    /\ (last.op = "release" /\ last.status = ERROR_NONE
        /\ bufs[last.buf].state # "live") => last.store \notin DOMAIN buffers_

C2_Witness ==
    /\ last.op = "release" /\ last.status = ERROR_NONE
    /\ bufs[last.buf].state = "destroyed"
    /\ last.store \notin DOMAIN buffers_
    /\ DOMAIN buffers_ # {}

\* C3: release(h) on a handle without a Handle Registry entry returns
\* BadHandle and leaves the Handle Registry, the Buffer Table and every
\* Buffer's reference count unchanged.
C3_ReleaseUnknownIsBadHandle ==
    [][(last'.op = "release" /\ ~last'.reg) =>
          /\ last'.status = ERROR_BAD_HANDLE
          /\ UNCHANGED <<handles_, buffers_, bufs>>]_vars

\* A well-formed handle that was registered and released down to removal is
\* released once more, while another Buffer is still in the table.
C3_Witness ==
    /\ last.op = "release" /\ last.valid /\ ~last.reg
    /\ last.status = ERROR_BAD_HANDLE
    /\ hmem[last.h].fd # BadFd
    /\ DOMAIN buffers_ # {}
    /\ \E b \in BufPtrs : bufs[b].state = "destroyed"

\* The handles whose fds[0] resolves to the identity that h's resolves to.
SameIdentity(h1, h2) == hmem[h1].fd # BadFd /\ hmem[h1].fd = hmem[h2].fd

\* Buffer b is in the Buffer Table under its identity and has not been destroyed.
InTable(S, b) ==
    /\ S.bufs[b].state = "live"
    /\ S.bufs[b].id \in DOMAIN S.buffers_
    /\ S.buffers_[S.bufs[b].id] = b

\* Every entry point that takes a handle resolves h to Buffer b and does not
\* answer BadHandle.
Resolves(S, h, b) ==
    /\ get_buffer(S, h) = b
    /\ release(S, h).status = ERROR_NONE
    /\ get_backing_store(S, h).status = ERROR_NONE
    /\ get_backing_store(S, h).buf = b
    /\ \A res \in BufferResults :
        /\ unlock(S, h, res).status # ERROR_BAD_HANDLE
        /\ unlock(S, h, res).buf = b
        /\ \A fence \in {-1, 0} :
            /\ lock(S, h, fence, res).status # ERROR_BAD_HANDLE
            /\ lock(S, h, fence, res).buf = b

RECURSIVE RetainTimes(_, _, _, _)
RetainTimes(S, h, n, in) ==
    IF n = 0 THEN [S |-> S, ok |-> TRUE]
    ELSE LET r == retain(S, h, in)
         IN IF r.status # ERROR_NONE THEN [S |-> r.S, ok |-> FALSE]
            ELSE RetainTimes(r.S, h, n - 1, in)

RECURSIVE ReleaseTimes(_, _, _)
ReleaseTimes(S, h, n) ==
    IF n = 0 THEN [S |-> S, ok |-> TRUE]
    ELSE LET r == release(S, h)
         IN IF r.status # ERROR_NONE THEN [S |-> r.S, ok |-> FALSE]
            ELSE ReleaseTimes(r.S, h, n - 1)

\* The path the next retain(h) takes.
RetainPath(S, h) ==
    IF ~S.hmem[h].magic THEN "invalid"
    ELSE IF h \in DOMAIN S.handles_ THEN "registered"
    ELSE IF S.hmem[h].fd = BadFd THEN "dead"
    ELSE IF S.gem[S.hmem[h].fd] \in DOMAIN S.buffers_ THEN "shared"
    ELSE "import"

\* C5: from any reachable state, n >= 1 successful retain(h) calls followed by
\* n release(h) calls all succeed and give back the Buffer Table of before the
\* first retain (the same identities, each with the same reference count), on
\* each of the three retain paths.
C5_RetainReleaseRoundTrip ==
    \A h \in Allocated, n \in 1..MaxCount :
        LET in == [newid |-> PickOr(FreeIds(State)),
                   import_ok |-> FreeBufPtrs(State) # {},
                   b |-> PickOr(FreeBufPtrs(State))]
            up == RetainTimes(State, h, n, in)
            down == ReleaseTimes(up.S, h, n)
        IN up.ok => /\ down.ok
                    /\ TableView(down.S) = TableView(State)
                    /\ down.S.handles_ = handles_

\* A round trip has just ended (retain, then release, of a handle whose
\* identity another handle keeps in the table), in a state where one handle
\* would take the registered path and another the shared path.
C5_Witness ==
    /\ last.op = "release" /\ last.status = ERROR_NONE
    /\ RetainPath(State, last.h) = "shared"
    /\ \E h \in Allocated : RetainPath(State, h) = "registered"

\* C6: an allocate or retain call that returns a status other than None
\* leaves the Buffer Table, the Handle Registry and every reference count as
\* they were before the call.
C6_FailedCallLeavesTables ==
    [][(last'.op \in {"allocate", "retain"} /\ last'.status # ERROR_NONE) =>
          UNCHANGED <<buffers_, handles_, bufs>>]_vars

\* A fresh import has just failed while the tables hold a Buffer.
C6_Witness ==
    /\ last.op = "retain" /\ last.status = ERROR_NO_RESOURCES
    /\ DOMAIN buffers_ # {} /\ DOMAIN handles_ # {}

\* C7 as claimed: lock with acquire_fence >= 0 returns Unsupported whatever
\* the handle is.
C7_FenceAlwaysUnsupported ==
    (last.op = "lock" /\ last.fence >= 0) => last.status = ERROR_UNSUPPORTED

\* C7, amended: lock with acquire_fence >= 0 returns Unsupported when the
\* handle passes validation and has a Registry entry, and BadHandle when the
\* handle fails validation or has no Registry entry.
C7_FenceUnsupportedWhenRegistered ==
    (last.op = "lock" /\ last.fence >= 0) =>
        last.status = IF last.valid /\ last.reg THEN ERROR_UNSUPPORTED
                      ELSE ERROR_BAD_HANDLE

C7_Witness ==
    /\ last.op = "lock" /\ last.fence >= 0
    /\ last.valid /\ last.reg /\ last.status = ERROR_UNSUPPORTED

\* C10: a Buffer is destroyed exactly when its reference count reaches zero:
\* only by a release call that takes the count from 1 to 0, with no Registry
\* entry referencing it then; it is never destroyed twice or revived, and no
\* Registry entry ever references a Buffer that is not live.
C10_DestroyedExactlyAtZero ==
    /\ [](\A b \in BufPtrs :
            /\ bufs[b].state # "corrupt"
            /\ bufs[b].state = "live" => bufs[b].refcount >= 1)
    /\ [](\A h \in Registered : bufs[handles_[h].first].state = "live")
    /\ [][\A b \in BufPtrs :
            /\ (bufs[b].state = "live" /\ bufs'[b].state # "live") =>
                /\ last'.op = "release" /\ last'.status = ERROR_NONE
                /\ last'.buf = b
                /\ bufs[b].refcount = 1
                /\ bufs'[b].state = "destroyed"
                /\ bufs[b].bo \in bos /\ bufs[b].bo \notin bos'
                /\ EntriesOf(State, b) = {last'.h}
                /\ \A h \in DOMAIN handles_' : handles_'[h].first # b
            /\ bufs[b].state = "destroyed" => bufs'[b].state = "destroyed"
            /\ (bufs[b].state = "live" /\ bufs[b].refcount = 1
                /\ last'.op = "release" /\ last'.status = ERROR_NONE
                /\ last'.buf = b) => bufs'[b].state = "destroyed"]_vars

\* A Buffer shared by two handles has been destroyed by the last release.
C10_Witness ==
    /\ last.op = "release" /\ last.status = ERROR_NONE
    /\ bufs[last.buf].state = "destroyed"
    /\ \E h \in Allocated : h # last.h /\ SameIdentity(h, last.h)
    /\ Registered = {}

\* C11: between calls there is at most one live Buffer per Allocation Identity,
\* and every live Buffer is the value the Buffer Table stores under its own
\* identity, which is the GEM handle read back from the backend allocation the
\* Buffer owns (after allocate, and after retain on the import path).
C11_OneBufferPerIdentity ==
    /\ \A b1, b2 \in Live(State) : bufs[b1].id = bufs[b2].id => b1 = b2
    /\ \A b \in Live(State) :
        /\ InTable(State, b)
        /\ bufs[b].bo \in bos
        /\ drv_bo_get_plane_handle(State, bufs[b].bo) = bufs[b].id
    /\ \A id \in DOMAIN buffers_ : bufs[buffers_[id]].id = id

\* A retain has just imported a second Buffer next to an allocated one.
C11_Witness ==
    /\ last.op = "retain" /\ last.status = ERROR_NONE
    /\ bufs[last.buf].hnd = Null /\ bufs[last.buf].refcount = 1
    /\ \E b \in Live(State) : b # last.buf /\ bufs[b].hnd # Null

\* The entry points that look a handle up without registering it.
LookupOps == {"release", "lock", "unlock", "get_backing_store"}

\* C12: every Handle Registry entry has a per-handle count >= 1; the release
\* that takes an entry's count to 0 removes the entry in the same call; and a
\* lookup of an unregistered handle by release, lock, unlock or
\* get_backing_store creates no entry.
C12_NoZeroCountEntry ==
    /\ [](\A h \in DOMAIN handles_ :
            handles_[h].second >= 1 /\ handles_[h].first # Null)
    /\ [][(last'.op = "release" /\ last'.reg /\ handles_[last'.h].second = 1) =>
            last'.h \notin DOMAIN handles_']_vars
    /\ [][(last'.op \in LookupOps /\ ~last'.reg) =>
            DOMAIN handles_' = DOMAIN handles_]_vars

\* get_backing_store has just looked up a well-formed handle whose entry an
\* earlier release removed, while another handle is registered.
C12_Witness ==
    /\ last.op = "get_backing_store" /\ last.valid /\ ~last.reg
    /\ last.status = ERROR_BAD_HANDLE
    /\ hmem[last.h].fd # BadFd
    /\ \E b \in BufPtrs : bufs[b].state = "destroyed"
    /\ DOMAIN handles_ # {}

\* C13: an allocate for which the backend creates an allocation that reports
\* a buffers-per-object count other than 1 returns NoResources, destroys that
\* allocation, and leaves the Buffer Table and the Handle Registry without
\* any entry for it (both as they were before the call).
C13_MultiBufferRejected ==
    [][(last'.op = "allocate" /\ last'.nbufs \notin {0, 1}) =>
          /\ last'.status = ERROR_NO_RESOURCES
          /\ last'.h = Null
          /\ UNCHANGED <<buffers_, handles_, bufs, hmem>>
          /\ bos' = bos
          /\ \A id \in DOMAIN buffers_' : bufs'[buffers_'[id]].bo \in bos]_vars

\* The backend has just reported two buffers for an allocation, while the
\* tables hold an earlier one.
C13_Witness ==
    /\ last.op = "allocate" /\ last.nbufs = 2
    /\ last.status = ERROR_NO_RESOURCES
    /\ DOMAIN buffers_ # {} /\ DOMAIN handles_ # {}

\* C15 as claimed: retain returns BadHandle exactly when the handle fails the
\* magic check, and NoResources or None otherwise.
C15_BadHandleOnlyOnMagic ==
    last.op = "retain" => (last.status = ERROR_BAD_HANDLE <=> ~last.valid)

\* C15, amended: retain returns BadHandle exactly when the handle fails the
\* magic check or, being unregistered, has a primary descriptor that does not
\* resolve to an Allocation Identity; it returns NoResources exactly when a
\* fresh backend import is attempted and fails; it returns None in every
\* other case (handle registered, identity in the Buffer Table, or import
\* succeeded).
C15_RetainStatus ==
    [][last'.op = "retain" =>
          LET path == RetainPath(State, last'.h)
              imported == hmem[last'.h].fd \in bos' \ bos
          IN /\ last'.status = ERROR_BAD_HANDLE <=> path \in {"invalid", "dead"}
             /\ last'.status = ERROR_NO_RESOURCES <=> (path = "import" /\ ~imported)
             /\ last'.status = ERROR_NONE <=>
                    \/ path \in {"registered", "shared"}
                    \/ path = "import" /\ imported]_vars

\* retain has just refused a handle whose magic is right and whose descriptor
\* names no memory object, while the tables hold a Buffer.
C15_Witness ==
    /\ last.op = "retain" /\ last.valid /\ ~last.reg
    /\ last.status = ERROR_BAD_HANDLE
    /\ hmem[last.h].fd = BadFd
    /\ DOMAIN buffers_ # {}

\* C16: get_backing_store on a registered handle returns None and outputs the
\* Allocation Identity of the Buffer the handle's Registry entry references;
\* two registered handles get the same token iff they reference the same
\* Buffer; and a handle's token is the same from its registration to its
\* removal.
C16_BackingStoreIsBufferIdentity ==
    /\ [](\A h \in Registered :
            /\ get_backing_store(State, h).status = ERROR_NONE
            /\ get_backing_store(State, h).store.hi = 0
            /\ get_backing_store(State, h).store.lo = bufs[handles_[h].first].id)
    /\ []((last.op = "get_backing_store" /\ last.reg) =>
            /\ last.status = ERROR_NONE
            /\ last.store.hi = 0
            /\ last.store.lo = bufs[handles_[last.h].first].id)
    /\ [](\A h1, h2 \in Registered :
            get_backing_store(State, h1).store = get_backing_store(State, h2).store
                <=> handles_[h1].first = handles_[h2].first)
    /\ [][\A h \in DOMAIN handles_ \cap DOMAIN handles_' :
            bufs'[handles_'[h].first].id = bufs[handles_[h].first].id]_vars

\* get_backing_store has just answered for a handle that shares its Buffer
\* with another registered handle, after a release of that handle.
C16_Witness ==
    /\ last.op = "get_backing_store" /\ last.status = ERROR_NONE
    /\ last.store.lo = bufs[last.buf].id
    /\ bufs[last.buf].refcount = 2
    /\ \E h \in Registered : h # last.h /\ handles_[h].first = last.buf

\* Sequences of retain and release calls on one handle, up to 2 * MaxCount long.
CallSeqs == UNION {[1..n -> {"retain", "release"}] : n \in 0..(2 * MaxCount)}

\* 1 + r - s after the first k calls of ops.
Balance(ops, k) ==
    1 + Cardinality({i \in 1..k : ops[i] = "retain"})
      - Cardinality({i \in 1..k : ops[i] = "release"})

\* The calls of ops never take the value to 0.
StaysReferenced(ops) == \A k \in 1..Len(ops) : Balance(ops, k) >= 1

\* The calls of ops made on handle h one after the other, from the k-th on.
RECURSIVE RunCalls(_, _, _, _)
RunCalls(S, h, ops, k) ==
    IF k > Len(ops) THEN [S |-> S, ok |-> TRUE]
    ELSE LET r == IF ops[k] = "retain"
                  THEN retain(S, h, [newid |-> Null, import_ok |-> FALSE, b |-> Null])
                  ELSE release(S, h)
         IN IF r.status # ERROR_NONE THEN [S |-> r.S, ok |-> FALSE]
            ELSE RunCalls(r.S, h, ops, k + 1)

\* C17: right after a successful allocate that returns handle H, the Buffer's
\* reference count and registry[H] are 1; after r retain(H) and s <= r
\* release(H) calls in any order that never takes the value to 0, both equal
\* 1 + r - s; and one more release when the value is 1 destroys the Buffer
\* and removes H's Registry entry.
C17_CountsFollowCalls ==
    (last.op = "allocate" /\ last.status = ERROR_NONE) =>
        LET H == last.h
            b == last.buf
        IN /\ bufs[b].refcount = 1
           /\ H \in DOMAIN handles_ /\ handles_[H] = [first |-> b, second |-> 1]
           /\ \A ops \in CallSeqs :
                StaysReferenced(ops) =>
                    LET T == RunCalls(State, H, ops, 1)
                        U == release(T.S, H)
                    IN /\ T.ok
                       /\ T.S.bufs[b].state = "live"
                       /\ T.S.bufs[b].refcount = Balance(ops, Len(ops))
                       /\ T.S.handles_[H].second = Balance(ops, Len(ops))
                       /\ Balance(ops, Len(ops)) = 1 =>
                            /\ U.status = ERROR_NONE
                            /\ U.S.bufs[b].state = "destroyed"
                            /\ H \notin DOMAIN U.S.handles_
                            /\ bufs[b].id \notin DOMAIN U.S.buffers_
                            /\ bufs[b].bo \notin U.S.bos

\* allocate has just returned a handle while the tables hold another Buffer
\* that two references keep alive.
C17_Witness ==
    /\ last.op = "allocate" /\ last.status = ERROR_NONE
    /\ handles_[last.h].second = 1
    /\ \E b \in Live(State) : b # last.buf /\ bufs[b].refcount = 2

\* C19: is_supported, lock, unlock and get_backing_store leave the Buffer
\* Table, the Handle Registry with its per-handle counts, and every Buffer's
\* reference count as they were, whatever the handle and the status.
C19_QueriesChangeNothing ==
    /\ [](\A h \in Allocated : query_lookup(State, h) = State)
    /\ [][last'.op \in QueryOps =>
            /\ UNCHANGED <<buffers_, handles_>>
            /\ \A b \in BufPtrs : bufs'[b] = bufs[b]]_vars

\* unlock has just refused a well-formed handle that has no Registry entry,
\* while a Buffer with two references is in the tables.
C19_Witness ==
    /\ last.op = "unlock" /\ last.valid /\ ~last.reg
    /\ last.status = ERROR_BAD_HANDLE
    /\ \E b \in Live(State) : bufs[b].refcount = 2

\* C20: when the driver is destroyed, every backend allocation that allocate
\* created or retain imported and that no release has destroyed is destroyed
\* before the backend is, so that none is live after the destructor.
C20_TeardownDestroysAllocations ==
    last.op = "destructor" =>
        /\ dev.drv_ = Null
        /\ bos = {}
        /\ \A b \in BufPtrs : bufs[b].state # "live"

\* ---------------------------------------------------------------- init
\* init can try node j: it opens and has a version.
Probed(j) == dev.nodes[j].open /\ dev.nodes[j].version
Blocklisted(j) == dev.nodes[j].name = "vgem"

\* The nodes a pass of init would select: pass 1 leaves the blocklist out,
\* pass 2 does not.
FirstPass  == {j \in Nodes : Probed(j) /\ ~Blocklisted(j) /\ dev.nodes[j].create[1]}
SecondPass == {j \in Nodes : Probed(j) /\ dev.nodes[j].create[2]}

GuardedPcs == {"alloc_insert", "alloc_insert2", "retain", "release", "release2",
               "lock", "unlock", "get_backing_store"}

\* The positions of allocate and is_supported outside any lock_guard.
UnguardedPcs == {"alloc_check", "alloc_lock", "is_supported"}

\* A step that inserts into or erases from a table, or changes the count of a
\* constructed Buffer (or destroys it).
TableWrite ==
    \/ buffers_' # buffers_
    \/ handles_' # handles_
    \/ \E b \in BufPtrs : bufs[b].state = "live" /\ bufs'[b] # bufs[b]

\* C8: every step that inserts into or erases from the Buffer Table or the
\* Handle Registry, or changes a per-handle count or a Buffer's reference
\* count, is taken by the thread that holds the mutex at that step, and no
\* other thread is inside such a region then.
C8_WritesUnderMutex ==
    /\ [](Cardinality({t \in Threads : pc[t] \in GuardedPcs}) <= 1)
    /\ [][TableWrite =>
            /\ mutex_ \in Threads
            /\ pc[mutex_] \in GuardedPcs
            /\ pc'[mutex_] # pc[mutex_]
            /\ \A t \in Threads \ {mutex_} :
                pc'[t] = pc[t] /\ pc[t] \notin GuardedPcs]_vars

\* One thread is between the two decrements of release, holding the mutex,
\* while another has built a Buffer in allocate and waits for the mutex.
C8_Witness ==
    \E t1, t2 \in Threads :
        /\ pc[t1] = "release2" /\ mutex_ = t1
        /\ pc[t2] = "alloc_lock"
        /\ DOMAIN handles_ # {}

View(S) ==
    [buffers_ |-> S.buffers_, handles_ |-> S.handles_,
     counts |-> [b \in {S.buffers_[id] : id \in DOMAIN S.buffers_}
                       \cup {S.handles_[h].first : h \in DOMAIN S.handles_}
                 |-> S.bufs[b].refcount]]

\* The tables are those of a state between calls.
Coherent(S) ==
    /\ \A id \in DOMAIN S.buffers_ :
        /\ InTable(S, S.buffers_[id])
        /\ S.bufs[S.buffers_[id]].refcount >= 1
        /\ S.bufs[S.buffers_[id]].refcount = HandleCountSum(S, S.buffers_[id])
    /\ \A h \in DOMAIN S.handles_ :
        /\ S.handles_[h].second >= 1
        /\ S.handles_[h].first \in BufPtrs
        /\ InTable(S, S.handles_[h].first)

\* The state with the call of the mutex holder carried to its return: what is
\* left of release after the per-handle count, or of allocate after the lock.
Complete(S) ==
    IF mutex_ = Null THEN S
    ELSE CASE pc[mutex_] = "release2" -> release_buffer(S, loc[mutex_].b)
           [] pc[mutex_] = "alloc_insert" ->
                  allocate_insert(S, loc[mutex_].hnd, loc[mutex_].b)
           [] pc[mutex_] = "alloc_insert2" ->
                  allocate_insert_handle(S, loc[mutex_].hnd, loc[mutex_].b)
           [] OTHER -> S

Abs == View(Complete(State))

\* The step is the one at which a call takes effect, and its effect on what
\* callers observe is that of the whole call made alone.
TakesEffect ==
    \E t \in Threads :
        \/ /\ pc[t] = "retain" /\ pc'[t] = "idle"
           /\ \E import_ok \in BOOLEAN :
                Abs' = View(retain(State, loc[t].h,
                                   [newid |-> PickOr(FreeIds(State)),
                                    import_ok |-> import_ok,
                                    b |-> PickOr(FreeBufPtrs(State))]).S)
        \/ /\ pc[t] = "release" /\ pc'[t] \in {"release2", "idle"}
           /\ Abs' = View(release(State, loc[t].h).S)
        \/ /\ pc[t] = "alloc_lock" /\ pc'[t] = "alloc_insert"
           /\ Abs' = View(allocate_insert(State, loc[t].hnd, loc[t].b))

\* C18: allocate, retain and release are atomic with respect to other
\* callers. Whenever the mutex is free, so whenever a thread can acquire it,
\* the tables are those of a state between calls (no per-handle count
\* lowered without the Buffer's count, no Buffer Table entry without its
\* Registry entry); and every step either leaves what callers observe as it
\* was or changes it as one whole call made alone does, so that the tables
\* are at any time those of the calls made one after the other in the order
\* in which they took effect.
C18_CallsAreAtomic ==
    /\ [](mutex_ = Null => Coherent(State))
    /\ [](mutex_ = Null => Abs = View(State))
    /\ [](Coherent(Complete(State)))
    /\ [][Abs' = Abs \/ TakesEffect]_vars

\* A release has lowered the per-handle count and not yet the Buffer's count,
\* while another thread, in allocate, has built its Buffer and waits for the
\* mutex.
C18_Witness ==
    \E t1, t2 \in Threads :
        /\ pc[t1] = "release2" /\ mutex_ = t1
        /\ ~Coherent(State)
        /\ bufs[loc[t1].b].refcount = 2
        /\ pc[t2] = "alloc_lock"

====
